---- MODULE Spec2Model ----
(***************************************************************************)
(* Edge telemetry processing engine (EdgeComputingProcessor) of            *)
(* src/iot/edge-computing/EdgeProcessor.py as a state machine.             *)
(*                                                                         *)
(* Numbers.  The source computes in floating point; the model computes     *)
(* the same quantities exactly over integer inputs:                        *)
(*   - a mean is the pair [num, den] (sum, count);                         *)
(*   - np.std(v) is sqrt(VarN(v)) / Len(v), VarN(v) = n*Sum(v^2)-Sum(v)^2; *)
(*   - anomaly_score is held as its square, [num, den] (clamped to 1);     *)
(*   - co2_trend = slope * |r| is held as [sgn, sxy, sxx, syy] with        *)
(*     |co2_trend| = sxy^2 / (sxx * sqrt(sxx * syy)), the n-scaled central *)
(*     sums of linregress;                                                 *)
(*   - data_quality is held in units of 1/10000 (every factor has one      *)
(*     decimal and at most four factors apply);                            *)
(*   - ratios (savings, target) are pairs [num, den].                      *)
(* Comparisons against the thresholds of the source are done by exact      *)
(* rational comparison (FracGt), so no rounding is introduced.             *)
(* Optional values (Optional[ProcessedData], Optional[AnomalyAlert], a     *)
(* reading's co2_ppm when the measurement is missing) are sequences of     *)
(* length 0 (None) or 1.                                                   *)
(***************************************************************************)
EXTENDS Integers, Sequences, FiniteSets, TLC

VARIABLES
    window_size,            \* self.window_size            (config)
    bandwidth_save_target,  \* self.bandwidth_save_target  (config), [num, den]
    processing_buffer,      \* self.processing_buffer
    stats,                  \* self.stats
    db_inserts,             \* tables of the local SQLite cache the last call inserted into
    trace,                  \* methods entered by the last call, in order
    published,              \* mqtt publishes issued by the last call
    processed_data,         \* summary computed by the last call (None or one)
    alert,                  \* detect_anomalies' result in the last call
    decision,               \* should_transmit_data's result in the last call
    analyzed,               \* len(processing_buffer) seen by analyze_data_window
    returned,               \* the last call's return value (None or a summary)
    last,                   \* the last call's reading and environment
    policy,                 \* the last direct call of should_transmit_data: its
                            \* summary, the stats it read and its result
    propagated,             \* an exception left process_sensor_reading
    withheld,               \* windows evaluated so far whose summary was not
                            \* handed to transmit_to_cloud
    report,                 \* get_performance_report's result, when it was the
                            \* last operation (None or one)
    tasks,                  \* process_sensor_reading coroutines running as tasks
                            \* of one event loop: reading, position, locals
    base                    \* buffer and counters when the tasks were created

vars == <<window_size, bandwidth_save_target, processing_buffer, stats, db_inserts,
          trace, published, processed_data, alert, decision, analyzed, returned,
          last,
          policy, propagated, withheld, report, tasks, base>>

----------------------------------------------------------------------------
(* Bounds of the model *)

MaxReadings == 4

MaxReadingsDefault == 14

MaxReadingsPolicy == 6

MaxReadingsTasks == 4

MaxDirectCalls == 2

MaxReadingsClassify == 3

MaxReadingsScenario == 50

MaxReadingsWindow == 4

MaxWindowFloat == 10

----------------------------------------------------------------------------
(* Exact arithmetic helpers *)

RECURSIVE SeqSum(_)
SeqSum(s) == IF s = <<>> THEN 0 ELSE Head(s) + SeqSum(Tail(s))

Abs(x) == IF x < 0 THEN -x ELSE x

Sign(x) == IF x < 0 THEN -1 ELSE IF x > 0 THEN 1 ELSE 0

Squares(v) == [i \in DOMAIN v |-> v[i] * v[i]]

Products(x, y) == [i \in DOMAIN x |-> x[i] * y[i]]

\* a/b > c/d for a, c >= 0 and b, d > 0, by continued fractions (no products)
RECURSIVE FracGt(_, _, _, _)
FracGt(a, b, c, d) ==
    LET qa == a \div b
        qc == c \div d
        ra == a % b
        rc == c % d
    IN  IF qa # qc THEN qa > qc
        ELSE IF ra = 0 THEN FALSE
        ELSE IF rc = 0 THEN TRUE
        ELSE FracGt(d, rc, b, ra)

\* n^2 * (population variance of v)
VarN(v) == Len(v) * SeqSum(Squares(v)) - SeqSum(v) * SeqSum(v)

\* n^2 * (population covariance of x and y)
CovN(x, y) == Len(x) * SeqSum(Products(x, y)) - SeqSum(x) * SeqSum(y)

----------------------------------------------------------------------------
(* Inputs: SensorReading (src 38-47).  temperature, humidity, location and  *)
(* sensor_id are never read by the engine's decisions and are left out.     *)

Reading(co2, battery, signal, ts) ==
    [co2_ppm |-> <<co2>>, battery_level |-> battery, signal_strength |-> signal,
     timestamp |-> ts]

\* a reading whose co2_ppm is None
MissingCo2(battery, signal, ts) ==
    [co2_ppm |-> << >>, battery_level |-> battery, signal_strength |-> signal,
     timestamp |-> ts]

\* readings offered to an engine of any configuration
Readings ==
    { Reading(400, 100, -45, 0), Reading(400, 100, -45, 1),
      Reading(600, 100, -45, 1), Reading(1200, 100, -45, 1),
      Reading(400, 10, -90, 0), MissingCo2(100, -45, 1) }

\* readings offered to the engine in its default configuration: a healthy
\* sensor with a steady measurement, and one small step
DefaultReadings == { Reading(420, 100, -45, 0), Reading(430, 100, -45, 0) }

\* a reading of the buffer carries no co2_ppm
HasMissingCo2(buf) == \E i \in DOMAIN buf : buf[i].co2_ppm = << >>

Co2Values(buf) == [i \in DOMAIN buf |-> buf[i].co2_ppm[1]]

Timestamps(buf) == [i \in DOMAIN buf |-> buf[i].timestamp]

Batteries(buf) == [i \in DOMAIN buf |-> buf[i].battery_level]

Signals(buf) == [i \in DOMAIN buf |-> buf[i].signal_strength]

----------------------------------------------------------------------------
(* Window statistics *)

ZeroTrend == [sgn |-> 0, sxy |-> 0, sxx |-> 1, syy |-> 1]

\* calculate_trend: slope * |r_value| of linregress(time_numeric, values).
\* All x identical: linregress raises ValueError, the except returns 0.0.
\* All y identical: r = 0.0 and slope = 0.
calculate_trend(values, timestamps) ==
    IF Len(values) < 3 THEN ZeroTrend
    ELSE LET time_numeric ==
                 [i \in DOMAIN timestamps |-> timestamps[i] - timestamps[1]]
             sxx == VarN(time_numeric)
             syy == VarN(values)
             sxy == CovN(time_numeric, values)
         IN  IF sxx = 0 \/ syy = 0 \/ sxy = 0 THEN ZeroTrend
             ELSE [sgn |-> Sign(sxy), sxy |-> Abs(sxy), sxx |-> sxx, syy |-> syy]

\* |co2_trend| > c
AbsTrendGt(tr, c) ==
    /\ tr.sgn # 0
    /\ FracGt(tr.sxy * tr.sxy, c * c * tr.sxx * tr.sxx, tr.sxx * tr.syy,
              tr.sxy * tr.sxy)

ZeroScore == [num |-> 0, den |-> 1]

\* calculate_anomaly_score without the min(.., 1.0) of line 283
calculate_anomaly_score_unclamped(values) ==
    IF Len(values) < 3 THEN ZeroScore
    ELSE LET latest_value == values[Len(values)]
             prior == SubSeq(values, 1, Len(values) - 1)
             m == Len(prior)
             v == VarN(prior)
             dd == m * latest_value - SeqSum(prior)
         IN  IF v = 0 THEN ZeroScore
             ELSE [num |-> dd * dd, den |-> 16 * v]

\* calculate_anomaly_score: min(z / 4, 1) with z the z-score of the latest
\* value against the others; returned as its square.
calculate_anomaly_score(values) ==
    IF Len(values) < 3 THEN ZeroScore
    ELSE LET latest_value == values[Len(values)]
             prior == SubSeq(values, 1, Len(values) - 1)
             m == Len(prior)
             v == VarN(prior)                       \* (m * std_val)^2
             dd == m * latest_value - SeqSum(prior) \* m * (latest - mean_val)
         IN  IF v = 0 THEN ZeroScore
             ELSE IF dd * dd >= 16 * v THEN [num |-> 1, den |-> 1]
             ELSE [num |-> dd * dd, den |-> 16 * v]

\* anomaly_score > p/q
ScoreGt(score, p, q) == FracGt(score.num, score.den, p * p, q * q)

\* quality_score *= tenths/10, on the 1/10000 scale
Penalize(quality_score, tenths) == (quality_score * tenths) \div 10

\* the lowest of the values
RECURSIVE SeqMin(_)
SeqMin(s) ==
    IF Len(s) = 1 THEN s[1]
    ELSE LET rest == SeqMin(Tail(s)) IN IF Head(s) < rest THEN Head(s) ELSE rest

\* assess_data_quality that judges the battery by its lowest level
assess_data_quality_min_battery(buf, W) ==
    LET n == Len(buf)
        q0 == 10000
        q1 == IF n < W THEN Penalize(q0, 8) ELSE q0
        battery == SeqMin(Batteries(buf))
        q2 == IF battery < 20 THEN Penalize(q1, 7)
              ELSE IF battery < 50 THEN Penalize(q1, 9) ELSE q1
        signal == SeqSum(Signals(buf))
        q3 == IF signal < (-80) * n THEN Penalize(q2, 6)
              ELSE IF signal < (-60) * n THEN Penalize(q2, 8) ELSE q2
        q4 == IF VarN(Co2Values(buf)) > 100 * 100 * n * n
              THEN Penalize(q3, 8) ELSE q3
    IN  IF q4 > 1000 THEN q4 ELSE 1000

\* assess_data_quality that halves the score of a nearly empty battery
assess_data_quality_harsh(buf, W) ==
    LET n == Len(buf)
        q0 == 10000
        q1 == IF n < W THEN Penalize(q0, 8) ELSE q0
        battery == SeqSum(Batteries(buf))
        q2 == IF battery < 20 * n THEN Penalize(q1, 5)
              ELSE IF battery < 50 * n THEN Penalize(q1, 9) ELSE q1
        signal == SeqSum(Signals(buf))
        q3 == IF signal < (-80) * n THEN Penalize(q2, 6)
              ELSE IF signal < (-60) * n THEN Penalize(q2, 8) ELSE q2
        q4 == IF VarN(Co2Values(buf)) > 100 * 100 * n * n
              THEN Penalize(q3, 8) ELSE q3
    IN  IF q4 > 1000 THEN q4 ELSE 1000

\* assess_data_quality
assess_data_quality(buf, W) ==
    LET n == Len(buf)
        q0 == 10000
        q1 == IF n < W THEN Penalize(q0, 8) ELSE q0
        battery == SeqSum(Batteries(buf))           \* n * avg_battery
        q2 == IF battery < 20 * n THEN Penalize(q1, 7)
              ELSE IF battery < 50 * n THEN Penalize(q1, 9) ELSE q1
        signal == SeqSum(Signals(buf))              \* n * avg_signal
        q3 == IF signal < (-80) * n THEN Penalize(q2, 6)
              ELSE IF signal < (-60) * n THEN Penalize(q2, 8) ELSE q2
        q4 == IF VarN(Co2Values(buf)) > 100 * 100 * n * n   \* co2_std > 100
              THEN Penalize(q3, 8) ELSE q3
    IN  IF q4 > 1000 THEN q4 ELSE 1000

\* calculate_bandwidth_savings without the zero test and the clamp
calculate_bandwidth_savings_unclamped(st) ==
    [num |-> st.total_readings - st.processed_readings, den |-> st.total_readings]

\* calculate_bandwidth_savings: max(0, min(1, 1 - processed/total))
calculate_bandwidth_savings(st) ==
    IF st.total_readings = 0 THEN [num |-> 0, den |-> 1]
    ELSE LET saved == st.total_readings - st.processed_readings
         IN  [num |-> IF saved < 0 THEN 0
                      ELSE IF saved > st.total_readings THEN st.total_readings
                      ELSE saved,
              den |-> st.total_readings]

RatioLt(a, b) == a.num * b.den < b.num * a.den

----------------------------------------------------------------------------
(* Anomaly Classifier and Transmission Policy *)

\* get_suggested_action
get_suggested_action(anomaly_type) ==
    CASE anomaly_type = "high_co2" ->
             "Check ventilation systems, verify sensor calibration"
      [] anomaly_type = "elevated_co2" -> "Monitor trend, prepare for intervention"
      [] anomaly_type = "rapid_change" -> "Investigate cause of sudden change"
      [] anomaly_type = "data_quality" -> "Check sensor connections and battery"
      [] anomaly_type = "statistical_anomaly" -> "Manual review recommended"
      [] OTHER -> "Monitor and investigate"

\* a classification that rates a confirmed high concentration critical
Classify_critical(pd) ==
    IF pd.avg_co2.num > 1000 * pd.avg_co2.den /\ ScoreGt(pd.anomaly_score, 4, 5)
    THEN [anomaly_type |-> "high_co2", severity |-> "critical"]
    ELSE IF pd.avg_co2.num > 800 * pd.avg_co2.den
    THEN [anomaly_type |-> "elevated_co2", severity |-> "medium"]
    ELSE [anomaly_type |-> "None", severity |-> "low"]

\* detect_anomalies, the classification (lines 326-353): the rules run in
\* order and each assigns over the result of the previous ones.
Classify(pd) ==
    LET a1 == IF pd.avg_co2.num > 1000 * pd.avg_co2.den
                  THEN [anomaly_type |-> "high_co2", severity |-> "high"]
              ELSE IF pd.avg_co2.num > 800 * pd.avg_co2.den
                  THEN [anomaly_type |-> "elevated_co2", severity |-> "medium"]
              ELSE [anomaly_type |-> "None", severity |-> "low"]
        a2 == IF AbsTrendGt(pd.co2_trend, 50)
                  THEN [anomaly_type |-> "rapid_change", severity |-> "medium"]
              ELSE a1
        a3 == IF pd.data_quality < 5000
                  THEN [anomaly_type |-> "data_quality", severity |-> "low"]
              ELSE a2
        a4 == IF ScoreGt(pd.anomaly_score, 4, 5)
                  THEN [anomaly_type |-> IF a3.anomaly_type = "None"
                                         THEN "statistical_anomaly"
                                         ELSE a3.anomaly_type,
                        severity |-> "high"]
              ELSE a3
    IN  a4

\* detect_anomalies, the result (lines 355-371): None, or one AnomalyAlert
detect_anomalies(pd) ==
    LET a == Classify(pd)
    IN  IF a.anomaly_type # "None"
        THEN << [anomaly_type |-> a.anomaly_type,
                 severity |-> a.severity,
                 confidence |-> pd.anomaly_score,
                 suggested_action |-> get_suggested_action(a.anomaly_type)] >>
        ELSE << >>

\* should_transmit_data with the savings rule moved ahead of the others
should_transmit_data_savings_first(pd, st, target) ==
    IF RatioLt(calculate_bandwidth_savings(st), target) THEN FALSE
    ELSE IF ScoreGt(pd.anomaly_score, 1, 2) THEN TRUE
    ELSE IF pd.data_quality < 3000 THEN TRUE
    ELSE IF AbsTrendGt(pd.co2_trend, 10) THEN TRUE
    ELSE st.processed_readings % 5 = 0

\* should_transmit_data
should_transmit_data(pd, st, target) ==
    IF ScoreGt(pd.anomaly_score, 1, 2) THEN TRUE
    ELSE IF pd.data_quality < 3000 THEN TRUE
    ELSE IF AbsTrendGt(pd.co2_trend, 10) THEN TRUE
    ELSE IF RatioLt(calculate_bandwidth_savings(st), target) THEN FALSE
    ELSE st.processed_readings % 5 = 0

----------------------------------------------------------------------------
(* One call of process_sensor_reading, as a record threaded through the     *)
(* methods it awaits.  No awaited method suspends (none awaits anything     *)
(* itself), so the call runs to its end without interleaving.               *)
(*   db_ok:   the SQLite writes of this call succeed                        *)
(*   mqtt_ok: the MQTT publishes of this call succeed                       *)
(*   raised:  an exception is propagating to the except of line 204         *)
(* The SQLite tables are only ever written by the engine; the model keeps   *)
(* the inserts of the last call (db_inserts), not the tables' contents.     *)

Enter(c, method) == [c EXCEPT !.trace = Append(@, method)]

\* json.dumps(asdict(x)) of a dataclass holding a datetime raises TypeError
\* unless default=str is passed; ProcessedData and AnomalyAlert both hold one.
JsonDumpsRaises(default_str) == ~default_str

\* s[i:] of Python for i <= 0
PySliceFrom(s, i) ==
    LET start == IF i = 0 THEN 0
                 ELSE IF Len(s) + i < 0 THEN 0 ELSE Len(s) + i
    IN  SubSeq(s, start + 1, Len(s))

\* store_reading_locally without its try/except: a failed INSERT propagates
store_reading_locally_raising(c, db_ok) ==
    LET e == Enter(c, "store_reading_locally")
    IN  IF db_ok THEN [e EXCEPT !.db_inserts = Append(@, "sensor_readings")]
        ELSE [e EXCEPT !.raised = TRUE]

\* store_reading_locally: the INSERT, or the logged exception
store_reading_locally(c, db_ok) ==
    LET e == Enter(c, "store_reading_locally")
    IN  IF db_ok THEN [e EXCEPT !.db_inserts = Append(@, "sensor_readings")] ELSE e

\* analyze_data_window.  np.mean(co2_values) of line 219 raises TypeError
\* when a value is None; the except of lines 244-246 logs and re-raises.
analyze_data_window(c, W) ==
    LET e == Enter(c, "analyze_data_window")
        co2_values == Co2Values(e.buffer)
        timestamps == Timestamps(e.buffer)
        pd == [avg_co2 |-> [num |-> SeqSum(co2_values), den |-> Len(co2_values)],
               co2_trend |-> calculate_trend(co2_values, timestamps),
               anomaly_score |-> calculate_anomaly_score(co2_values),
               data_quality |-> assess_data_quality(e.buffer, W),
               bandwidth_saved |-> calculate_bandwidth_savings(e.stats)]
    IN  IF HasMissingCo2(e.buffer)
        THEN [e EXCEPT !.analyzed = Len(e.buffer), !.raised = TRUE]
        ELSE [e EXCEPT !.processed_data = <<pd>>,
                       !.analyzed = Len(e.buffer),
                       !.stats.processed_readings = @ + 1]

\* detect_anomalies counting one anomaly for each of the two concentration
\* rules a high concentration passes
DetectAnomalies_per_rule(c) ==
    LET e == Enter(c, "detect_anomalies")
        anomaly == detect_anomalies(e.processed_data[1])
    IN  [e EXCEPT !.alert = anomaly,
                  !.stats.anomalies_detected =
                      IF anomaly = << >> THEN @
                      ELSE IF anomaly[1].severity = "high" THEN @ + 2
                      ELSE @ + 1]

\* detect_anomalies, with its counter
DetectAnomalies(c) ==
    LET e == Enter(c, "detect_anomalies")
        anomaly == detect_anomalies(e.processed_data[1])
    IN  [e EXCEPT !.alert = anomaly,
                  !.stats.anomalies_detected =
                      IF anomaly # << >> THEN @ + 1 ELSE @]

\* transmit_anomaly_alert: publish(topic, payload, qos=1); a failure is logged
transmit_anomaly_alert(c, mqtt_ok) ==
    LET e == Enter(c, "transmit_anomaly_alert")
    IN  IF JsonDumpsRaises(TRUE) THEN e
        ELSE [e EXCEPT !.published =
                 Append(@, [topic |-> "anomaly", qos |-> 1, ok |-> mqtt_ok])]

\* a severity branch in which a critical alert also raises the frequency
SeverityAction_cumulative(c, severity) ==
    IF severity = "critical"
    THEN Enter(Enter(c, "trigger_emergency_protocol"),
               "increase_monitoring_frequency")
    ELSE IF severity = "high" THEN Enter(c, "increase_monitoring_frequency")
    ELSE IF severity = "medium" THEN Enter(c, "schedule_maintenance_check")
    ELSE c

\* the severity branch of handle_anomaly (lines 444-450)
SeverityAction(c, severity) ==
    IF severity = "critical" THEN Enter(c, "trigger_emergency_protocol")
    ELSE IF severity = "high" THEN Enter(c, "increase_monitoring_frequency")
    ELSE IF severity = "medium" THEN Enter(c, "schedule_maintenance_check")
    ELSE c

\* store_anomaly_locally: the INSERT, or the logged exception
store_anomaly_locally(c, db_ok) ==
    LET e == Enter(c, "store_anomaly_locally")
    IN  IF db_ok THEN [e EXCEPT !.db_inserts = Append(@, "anomalies")] ELSE e

\* handle_anomaly that alerts only from severity medium upwards
handle_anomaly_quiet_low(c, db_ok, mqtt_ok) ==
    LET e1 == Enter(c, "handle_anomaly")
        e2 == IF c.alert[1].severity = "low" THEN e1
              ELSE transmit_anomaly_alert(e1, mqtt_ok)
        e3 == SeverityAction(e2, c.alert[1].severity)
    IN  store_anomaly_locally(e3, db_ok)

\* handle_anomaly in which a failed publish ends the handling
handle_anomaly_publish_fatal(c, db_ok, mqtt_ok) ==
    LET e1 == Enter(c, "handle_anomaly")
        e2 == transmit_anomaly_alert(e1, mqtt_ok)
        e3 == SeverityAction(e2, c.alert[1].severity)
    IN  IF mqtt_ok THEN store_anomaly_locally(e3, db_ok) ELSE e2

\* handle_anomaly
handle_anomaly(c, db_ok, mqtt_ok) ==
    LET e1 == Enter(c, "handle_anomaly")
        e2 == transmit_anomaly_alert(e1, mqtt_ok)
        e3 == SeverityAction(e2, c.alert[1].severity)
    IN  store_anomaly_locally(e3, db_ok)

\* transmit_to_cloud: publish(topic, payload), QoS 0; a failure is logged
transmit_to_cloud(c, mqtt_ok) ==
    LET e == Enter(c, "transmit_to_cloud")
    IN  IF JsonDumpsRaises(TRUE) THEN e
        ELSE [e EXCEPT !.published =
                 Append(@, [topic |-> "processed", qos |-> 0, ok |-> mqtt_ok])]

\* line 193: bandwidth_saved_bytes += len(json.dumps(asdict(processed_data))).
\* No default= is passed, so json.dumps raises before the counter is written.
RecordBandwidthSaved(c) ==
    IF JsonDumpsRaises(FALSE) THEN [c EXCEPT !.raised = TRUE]
    ELSE Enter(c, "bandwidth_saved")

\* line 197: processing_buffer[-self.window_size//2:]; Python reads the
\* index as (-window_size) // 2, a floor division
CleanupBuffer(c, W) ==
    [c EXCEPT !.buffer = PySliceFrom(c.buffer, (0 - W) \div 2)]

\* update_performance_stats; processing_time_avg averages wall-clock
\* durations, which no decision reads, and is left out
update_performance_stats(c) ==
    LET e == Enter(c, "update_performance_stats")
        bandwidth_savings == calculate_bandwidth_savings(e.stats)
    IN  [e EXCEPT !.stats.battery_saved_percent =
                      [num |-> bandwidth_savings.num * 40,
                       den |-> bandwidth_savings.den]]

\* lines 189-194: the transmission decision and its branch
ApplyFiltering(c, target, mqtt_ok) ==
    LET e == Enter(c, "should_transmit_data")
        transmit == should_transmit_data(e.processed_data[1], e.stats, target)
    IN  IF transmit
        THEN transmit_to_cloud([e EXCEPT !.decision = "transmit"], mqtt_ok)
        ELSE RecordBandwidthSaved([e EXCEPT !.decision = "withhold"])

\* lines 181-202: the evaluation of a full window
EvaluateWindow(c, W, target, db_ok, mqtt_ok) ==
    LET c1 == analyze_data_window(c, W)
        c2 == DetectAnomalies(c1)
        c3 == IF c2.alert # << >> THEN handle_anomaly(c2, db_ok, mqtt_ok) ELSE c2
        c4 == ApplyFiltering(c3, target, mqtt_ok)
        c5 == update_performance_stats(CleanupBuffer(c4, W))
    IN  IF c1.raised THEN c1
        ELSE IF c4.raised THEN c4
        ELSE [c5 EXCEPT !.returned = c5.processed_data]

\* process_sensor_reading without the try/except of lines 173 and 204
process_sensor_reading_unguarded(self, W, target, reading, db_ok, mqtt_ok) ==
    LET c0 == [buffer |-> Append(self.buffer, reading),
               stats |-> [self.stats EXCEPT !.total_readings = @ + 1],
               db_inserts |-> << >>,
               trace |-> << >>, published |-> << >>, processed_data |-> << >>,
               alert |-> << >>, decision |-> "none", analyzed |-> 0,
               returned |-> << >>, raised |-> FALSE]
        c1 == store_reading_locally(c0, db_ok)
    IN  IF Len(c1.buffer) >= W
        THEN EvaluateWindow(c1, W, target, db_ok, mqtt_ok)
        ELSE c1

\* process_sensor_reading that evaluates the window one reading early
process_sensor_reading_eager(self, W, target, reading, db_ok, mqtt_ok) ==
    LET c0 == [buffer |-> Append(self.buffer, reading),
               stats |-> [self.stats EXCEPT !.total_readings = @ + 1],
               db_inserts |-> << >>,
               trace |-> << >>, published |-> << >>, processed_data |-> << >>,
               alert |-> << >>, decision |-> "none", analyzed |-> 0,
               returned |-> << >>, raised |-> FALSE]
        c1 == store_reading_locally(c0, db_ok)
        c2 == IF Len(c1.buffer) + 1 >= W
                  THEN EvaluateWindow(c1, W, target, db_ok, mqtt_ok)
              ELSE c1
    IN  IF c2.raised
        THEN [Enter(c2, "except") EXCEPT !.raised = FALSE]
        ELSE c2

\* process_sensor_reading
process_sensor_reading(self, W, target, reading, db_ok, mqtt_ok) ==
    LET c0 == [buffer |-> Append(self.buffer, reading),
               stats |-> [self.stats EXCEPT !.total_readings = @ + 1],
               db_inserts |-> << >>,
               trace |-> << >>, published |-> << >>, processed_data |-> << >>,
               alert |-> << >>, decision |-> "none", analyzed |-> 0,
               returned |-> << >>, raised |-> FALSE]
        c1 == store_reading_locally(c0, db_ok)
        c2 == IF c1.raised THEN c1
              ELSE IF Len(c1.buffer) >= W
                  THEN EvaluateWindow(c1, W, target, db_ok, mqtt_ok)
              ELSE c1
    IN  IF c2.raised
        THEN [Enter(c2, "except") EXCEPT !.raised = FALSE]      \* return None
        ELSE c2

----------------------------------------------------------------------------
(* The engine *)

\* __init__ (lines 76-102)
InitEngine(W, target) ==
    /\ window_size = W
    /\ bandwidth_save_target = target
    /\ processing_buffer = << >>
    /\ stats = [total_readings |-> 0, processed_readings |-> 0,
                anomalies_detected |-> 0, bandwidth_saved_bytes |-> 0,
                battery_saved_percent |-> [num |-> 0, den |-> 1]]
    /\ db_inserts = << >>
    /\ trace = << >>
    /\ published = << >>
    /\ processed_data = << >>
    /\ alert = << >>
    /\ decision = "none"
    /\ analyzed = 0
    /\ returned = << >>
    /\ last = << >>
    /\ policy = << >>
    /\ propagated = FALSE
    /\ withheld = 0
    /\ report = << >>
    /\ tasks = << >>
    /\ base = << >>

DefaultTarget == [num |-> 7, den |-> 10]

WindowSizes == {2, 3}

Init == \E W \in WindowSizes : InitEngine(W, DefaultTarget)

\* main (lines 588-597): window_size 10, bandwidth_save_target 0.7
InitDefault == InitEngine(10, DefaultTarget)

\* one call of process_sensor_reading by the engine's caller, which makes
\* its calls one after the other (line 620) and handles no exception
ProcessSensorReading(reading, db_ok, mqtt_ok) ==
    \E c \in { process_sensor_reading(
                    [buffer |-> processing_buffer, stats |-> stats],
                    window_size, bandwidth_save_target, reading, db_ok, mqtt_ok) } :
        /\ ~propagated
        /\ processing_buffer' = c.buffer
        /\ stats' = c.stats
        /\ db_inserts' = c.db_inserts
        /\ trace' = c.trace
        /\ published' = c.published
        /\ processed_data' = c.processed_data
        /\ alert' = c.alert
        /\ decision' = c.decision
        /\ analyzed' = c.analyzed
        /\ returned' = c.returned
        /\ last' = << [reading |-> reading, db_ok |-> db_ok, mqtt_ok |-> mqtt_ok] >>
        /\ propagated' = c.raised
        /\ withheld' = IF c.decision = "withhold" THEN withheld + 1 ELSE withheld
        /\ report' = << >>
        /\ UNCHANGED <<window_size, bandwidth_save_target, policy, tasks, base>>

\* get_performance_report: a copy of the counters and the figures derived
\* from them (the formatted strings are held as the numbers they print)
get_performance_report(st) ==
    [statistics |-> st,
     efficiency_metrics |->
         [bandwidth_reduction |-> calculate_bandwidth_savings(st),
          anomaly_detection_rate |->
              [num |-> st.anomalies_detected, den |-> st.processed_readings],
          battery_savings |-> st.battery_saved_percent]]

\* get_performance_report that starts a new reporting period
GetPerformanceReport_resetting ==
    /\ report' = << get_performance_report(stats) >>
    /\ stats' = [stats EXCEPT !.total_readings = 0, !.processed_readings = 0,
                              !.anomalies_detected = 0,
                              !.bandwidth_saved_bytes = 0]
    /\ UNCHANGED <<window_size, bandwidth_save_target, processing_buffer,
                   db_inserts, trace, published, processed_data, alert,
                   decision, analyzed, returned, last, policy, propagated,
                   withheld, tasks, base>>

GetPerformanceReport ==
    /\ report' = << get_performance_report(stats) >>
    /\ UNCHANGED <<window_size, bandwidth_save_target, processing_buffer, stats,
                   db_inserts, trace, published, processed_data, alert,
                   decision, analyzed, returned, last, policy, propagated,
                   withheld, tasks, base>>

Next ==
    \/ \E reading \in Readings, db_ok \in BOOLEAN, mqtt_ok \in BOOLEAN :
          /\ stats.total_readings < MaxReadings
          /\ ProcessSensorReading(reading, db_ok, mqtt_ok)
    \/ GetPerformanceReport

Spec == Init /\ [][Next]_vars

\* the demonstration run of main: cache and broker both working
NextDefault ==
    \E reading \in DefaultReadings :
        /\ stats.total_readings < MaxReadingsDefault
        /\ ProcessSensorReading(reading, TRUE, TRUE)

SpecDefault == InitDefault /\ [][NextDefault]_vars

----------------------------------------------------------------------------
(* should_transmit_data called on its own.  It is a method of the engine    *)
(* that reads the summary it is given and self.stats and writes nothing;    *)
(* the summaries cover every rule's two sides, boundary values included.    *)

Trend(sgn, sxy, syy) == [sgn |-> sgn, sxy |-> sxy, sxx |-> 1, syy |-> syy]

Summaries ==
    { [avg_co2 |-> [num |-> 420, den |-> 1],
       co2_trend |-> tr, anomaly_score |-> sc, data_quality |-> q,
       bandwidth_saved |-> [num |-> 0, den |-> 1]] :
        tr \in { ZeroTrend, Trend(1, 10, 100), Trend(-1, 11, 121) },  \* 0, 10, -11
        sc \in { ZeroScore, [num |-> 1, den |-> 4], [num |-> 9, den |-> 25],
                 [num |-> 1, den |-> 1] },                   \* 0, 0.5, 0.6, 1
        q \in { 1000, 2688, 3000, 3360, 10000 } }

SteadyReadings == { Reading(420, 100, -45, 0) }

PolicyWindowSizes == {2, 4}

InitPolicy == \E W \in PolicyWindowSizes : InitEngine(W, DefaultTarget)

\* should_transmit_data that counts the summaries it is asked about
ShouldTransmitData_counting(pd) ==
    /\ policy' = << [summary |-> pd, stats |-> stats,
                     decision |-> should_transmit_data(pd, stats,
                                                       bandwidth_save_target)] >>
    /\ stats' = [stats EXCEPT !.processed_readings = @ + 1]
    /\ UNCHANGED <<window_size, bandwidth_save_target, processing_buffer,
                   db_inserts, trace, published, processed_data, alert,
                   decision, analyzed, returned, last, propagated, withheld,
                   report, tasks, base>>

ShouldTransmitData(pd) ==
    /\ policy' = << [summary |-> pd, stats |-> stats,
                     decision |-> should_transmit_data(pd, stats,
                                                       bandwidth_save_target)] >>
    /\ UNCHANGED <<window_size, bandwidth_save_target, processing_buffer, stats,
                   db_inserts, trace, published, processed_data, alert,
                   decision, analyzed, returned, last, propagated, withheld,
                   report, tasks, base>>

NextPolicy ==
    \/ \E reading \in SteadyReadings :
          /\ stats.total_readings < MaxReadingsPolicy
          /\ ProcessSensorReading(reading, TRUE, TRUE)
    \/ \E pd \in Summaries : ShouldTransmitData(pd)

SpecPolicy == InitPolicy /\ [][NextPolicy]_vars

----------------------------------------------------------------------------
(* Several process_sensor_reading calls in flight on one engine: coroutines *)
(* run as tasks of one asyncio event loop.  A task runs until it awaits     *)
(* something that suspends; only then can the loop run another task.  The   *)
(* call is cut at the awaits of lines 178-191; the engine's buffer and      *)
(* counters are shared by the tasks, the rest of the call record is local   *)
(* to each task.                                                            *)

\* store_reading_locally on an asynchronous database driver: its await
\* suspends the caller
Suspends_in_store(method) == method = "store_reading_locally"

\* whether `await self.<method>(...)` suspends the calling task.  Each
\* awaited method is a coroutine function that awaits nothing but the others
\* (handle_anomaly) and makes its SQLite and MQTT calls synchronously, so it
\* runs to its return inside the awaiting task.
Suspends(method) == FALSE

BlankCall ==
    [buffer |-> << >>, stats |-> << >>, db_inserts |-> << >>, trace |-> << >>,
     published |-> << >>, processed_data |-> << >>, alert |-> << >>,
     decision |-> "none", analyzed |-> 0, returned |-> << >>, raised |-> FALSE]

Task(reading) == [reading |-> reading, pc |-> "start", c |-> BlankCall]

\* the except of lines 204-206
ReturnNone(c) == [Enter(c, "except") EXCEPT !.raised = FALSE]

\* the part of process_sensor_reading from position pc up to and including
\* its next await (or its end): the call record after it, the position
\* reached and the method awaited
Segment(c, pc, W, target, reading, db_ok, mqtt_ok) ==
    CASE pc = "start" ->                                      \* lines 170-178
           [c |-> store_reading_locally(
                      [c EXCEPT !.buffer = Append(@, reading),
                                !.stats.total_readings = @ + 1], db_ok),
            pc |-> "stored", awaited |-> "store_reading_locally"]
      [] pc = "stored" ->                                     \* lines 181-182
           IF Len(c.buffer) >= W
           THEN LET e == analyze_data_window(c, W)
                IN  IF e.raised
                    THEN [c |-> ReturnNone(e), pc |-> "done", awaited |-> "none"]
                    ELSE [c |-> e, pc |-> "analyzed",
                          awaited |-> "analyze_data_window"]
           ELSE [c |-> c, pc |-> "done", awaited |-> "none"]
      [] pc = "analyzed" ->                                   \* line 185
           [c |-> DetectAnomalies(c), pc |-> "detected",
            awaited |-> "detect_anomalies"]
      [] pc = "detected" ->                                   \* lines 186-187
           IF c.alert # << >>
           THEN [c |-> handle_anomaly(c, db_ok, mqtt_ok), pc |-> "handled",
                 awaited |-> "handle_anomaly"]
           ELSE [c |-> c, pc |-> "handled", awaited |-> "none"]
      [] pc = "handled" ->                                    \* line 190
           LET e == Enter(c, "should_transmit_data")
               transmit == should_transmit_data(e.processed_data[1], e.stats,
                                                target)
           IN  [c |-> [e EXCEPT !.decision =
                                    IF transmit THEN "transmit" ELSE "withhold"],
                pc |-> "decided", awaited |-> "should_transmit_data"]
      [] pc = "decided" ->                                    \* lines 191-194
           IF c.decision = "transmit"
           THEN [c |-> transmit_to_cloud(c, mqtt_ok), pc |-> "filtered",
                 awaited |-> "transmit_to_cloud"]
           ELSE LET e == RecordBandwidthSaved(c)
                IN  IF e.raised
                    THEN [c |-> ReturnNone(e), pc |-> "done", awaited |-> "none"]
                    ELSE [c |-> e, pc |-> "filtered", awaited |-> "none"]
      [] pc = "filtered" ->                                   \* lines 196-202
           LET e == update_performance_stats(CleanupBuffer(c, W))
           IN  [c |-> [e EXCEPT !.returned = e.processed_data],
                pc |-> "done", awaited |-> "none"]

\* a task's run from position pc until it suspends or returns
RECURSIVE RunFrom(_, _, _, _, _, _, _)
RunFrom(c, pc, W, target, reading, db_ok, mqtt_ok) ==
    LET s == Segment(c, pc, W, target, reading, db_ok, mqtt_ok)
    IN  IF s.pc = "done" THEN s
        ELSE IF s.awaited # "none" /\ Suspends(s.awaited) THEN s
        ELSE RunFrom(s.c, s.pc, W, target, reading, db_ok, mqtt_ok)

TaskReadings ==
    { Reading(400, 100, -45, 0), Reading(1200, 100, -45, 1),
      MissingCo2(100, -45, 1) }

InitTasks == \E W \in WindowSizes : InitEngine(W, DefaultTarget)

AllDone == \A i \in DOMAIN tasks : tasks[i].pc = "done"

\* asyncio.gather(process_sensor_reading(r1), process_sensor_reading(r2)):
\* two calls are put in flight on the engine
Gather(r1, r2) ==
    /\ AllDone
    /\ stats.total_readings < MaxReadingsTasks
    /\ tasks' = << Task(r1), Task(r2) >>
    /\ base' = << [buffer |-> processing_buffer, stats |-> stats] >>
    /\ UNCHANGED <<window_size, bandwidth_save_target, processing_buffer, stats,
                   db_inserts, trace, published, processed_data, alert,
                   decision, analyzed, returned, last, policy, propagated,
                   withheld, report>>

\* the event loop runs task i until the task suspends or returns
RunTask(i) ==
    /\ tasks[i].pc # "done"
    /\ \E s \in { RunFrom([tasks[i].c EXCEPT !.buffer = processing_buffer,
                                            !.stats = stats],
                          tasks[i].pc, window_size, bandwidth_save_target,
                          tasks[i].reading, TRUE, TRUE) } :
          /\ processing_buffer' = s.c.buffer
          /\ stats' = s.c.stats
          /\ tasks' = [tasks EXCEPT ![i].pc = s.pc,
                                    ![i].c = IF s.pc = "done" THEN BlankCall
                                             ELSE s.c]
          /\ db_inserts' = s.c.db_inserts
          /\ trace' = s.c.trace
          /\ published' = s.c.published
          /\ processed_data' = s.c.processed_data
          /\ alert' = s.c.alert
          /\ decision' = s.c.decision
          /\ analyzed' = s.c.analyzed
          /\ returned' = s.c.returned
          /\ last' = << [reading |-> tasks[i].reading, db_ok |-> TRUE,
                         mqtt_ok |-> TRUE] >>
          /\ propagated' = s.c.raised
          /\ withheld' = IF s.pc = "done" /\ s.c.decision = "withhold"
                         THEN withheld + 1 ELSE withheld
          /\ report' = << >>
          /\ UNCHANGED <<window_size, bandwidth_save_target, policy, base>>

NextTasks ==
    \/ \E r1, r2 \in TaskReadings : Gather(r1, r2)
    \/ \E i \in DOMAIN tasks : RunTask(i)

SpecTasks == InitTasks /\ [][NextTasks]_vars

----------------------------------------------------------------------------
(* detect_anomalies called on its own, on summaries that cover every rule's *)
(* two sides (boundary values included) in every combination, next to an    *)
(* engine that processes readings.                                          *)

ClassifierSummaries ==
    { [avg_co2 |-> [num |-> co2, den |-> 1],
       co2_trend |-> tr, anomaly_score |-> sc, data_quality |-> q,
       bandwidth_saved |-> [num |-> 0, den |-> 1]] :
        co2 \in { 420, 800, 801, 1000, 1001 },
        tr \in { ZeroTrend, Trend(1, 50, 2500), Trend(-1, 51, 2601) }, \* 0, 50, -51
        sc \in { ZeroScore, [num |-> 16, den |-> 25], [num |-> 81, den |-> 100] },
                                                                 \* 0, 0.8, 0.9
        q \in { 3360, 4200, 5000, 10000 } }

ClassifyReadings == { Reading(420, 100, -45, 0), Reading(1200, 100, -45, 1) }

\* await self.detect_anomalies(processed_data)
DetectAnomaliesCall(pd) ==
    /\ stats.anomalies_detected < MaxDirectCalls
    /\ \E c \in { DetectAnomalies([BlankCall EXCEPT !.buffer = processing_buffer,
                                                   !.stats = stats,
                                                   !.processed_data = <<pd>>]) } :
          /\ stats' = c.stats
          /\ processed_data' = c.processed_data
          /\ alert' = c.alert
          /\ trace' = c.trace
          /\ published' = c.published
          /\ db_inserts' = c.db_inserts
          /\ decision' = c.decision
          /\ analyzed' = c.analyzed
          /\ returned' = c.returned
    /\ UNCHANGED <<window_size, bandwidth_save_target, processing_buffer, last,
                   policy, propagated, withheld, report, tasks, base>>

NextClassify ==
    \/ \E reading \in ClassifyReadings :
          /\ stats.total_readings < MaxReadingsClassify
          /\ ProcessSensorReading(reading, TRUE, TRUE)
    \/ \E pd \in ClassifierSummaries : DetectAnomaliesCall(pd)

SpecClassify == Init /\ [][NextClassify]_vars

----------------------------------------------------------------------------
(* handle_anomaly called on its own, on alerts of every type and severity. *)

Alerts ==
    { [anomaly_type |-> t, severity |-> sev, confidence |-> conf,
       suggested_action |-> get_suggested_action(t)] :
        t \in { "high_co2", "elevated_co2", "rapid_change", "data_quality",
                "statistical_anomaly" },
        sev \in { "low", "medium", "high", "critical" },
        conf \in { ZeroScore, [num |-> 1, den |-> 1] } }

\* await self.handle_anomaly(anomaly)
HandleAnomalyCall(anomaly, db_ok, mqtt_ok) ==
    /\ \E c \in { handle_anomaly([BlankCall EXCEPT !.buffer = processing_buffer,
                                                  !.stats = stats,
                                                  !.alert = <<anomaly>>],
                                 db_ok, mqtt_ok) } :
          /\ alert' = c.alert
          /\ trace' = c.trace
          /\ published' = c.published
          /\ db_inserts' = c.db_inserts
          /\ processed_data' = c.processed_data
          /\ decision' = c.decision
          /\ analyzed' = c.analyzed
          /\ returned' = c.returned
    /\ UNCHANGED <<window_size, bandwidth_save_target, processing_buffer, stats,
                   last, policy, propagated, withheld, report, tasks, base>>

NextHandle ==
    \E anomaly \in Alerts, db_ok \in BOOLEAN, mqtt_ok \in BOOLEAN :
        HandleAnomalyCall(anomaly, db_ok, mqtt_ok)

SpecHandle == Init /\ [][NextHandle]_vars

----------------------------------------------------------------------------
(* The run of main (lines 602-621) on a steady healthy sensor: 50 readings  *)
(* in sequence to an engine in the default configuration, with the cache    *)
(* and the broker working or not.                                           *)

NextScenario ==
    \E reading \in SteadyReadings, db_ok \in BOOLEAN, mqtt_ok \in BOOLEAN :
        /\ stats.total_readings < MaxReadingsScenario
        /\ ProcessSensorReading(reading, db_ok, mqtt_ok)

SpecScenario == InitDefault /\ [][NextScenario]_vars

----------------------------------------------------------------------------
(* Windows of every mix of sensor condition: a healthy sensor at three      *)
(* concentrations, a battery draining from 100 to 20, and a sensor with a   *)
(* nearly empty battery and a weak signal at two concentrations.            *)

WindowReadings ==
    { Reading(400, 100, -45, 0), Reading(600, 100, -45, 1),
      Reading(1200, 100, -45, 0),
      Reading(400, 60, -45, 0), Reading(400, 20, -45, 0),
      Reading(400, 10, -90, 0), Reading(1200, 10, -90, 0) }

NextWindow ==
    \E reading \in WindowReadings :
        /\ stats.total_readings < MaxReadingsWindow
        /\ ProcessSensorReading(reading, TRUE, TRUE)

SpecWindow == Init /\ [][NextWindow]_vars

----------------------------------------------------------------------------
(* Floating point.  A reading's co2_ppm is a Python float (src 42), an      *)
(* IEEE-754 binary64.  Where the rounding of np.mean decides a result, a    *)
(* float is the record [m, e] of value m * 2^e with m a natural of exactly  *)
(* Precision bits (zero: m = << >>), a natural being its limbs of 15 bits,  *)
(* least significant first, without leading zero limbs.  Additions and      *)
(* divisions round to nearest, ties to even.  The values used are far from  *)
(* the exponent limits, so overflow and subnormals are left out.            *)

Precision == 53

LimbBase == 2^15

RECURSIVE Strip(_)
Strip(a) ==
    IF a = << >> \/ a[Len(a)] # 0 THEN a
    ELSE Strip(SubSeq(a, 1, Len(a) - 1))

RECURSIVE AddLimbs(_, _, _)
AddLimbs(a, b, carry) ==
    IF a = << >> /\ b = << >> THEN (IF carry = 0 THEN << >> ELSE <<carry>>)
    ELSE LET x == IF a = << >> THEN 0 ELSE Head(a)
             y == IF b = << >> THEN 0 ELSE Head(b)
             s == x + y + carry
         IN  <<s % LimbBase>> \o
             AddLimbs(IF a = << >> THEN a ELSE Tail(a),
                      IF b = << >> THEN b ELSE Tail(b), s \div LimbBase)

NatAdd(a, b) == AddLimbs(a, b, 0)

\* a - b for a >= b
RECURSIVE SubLimbs(_, _, _)
SubLimbs(a, b, borrow) ==
    IF a = << >> THEN << >>
    ELSE LET y == IF b = << >> THEN 0 ELSE Head(b)
             s == Head(a) - y - borrow
         IN  <<s % LimbBase>> \o
             SubLimbs(Tail(a), IF b = << >> THEN b ELSE Tail(b),
                      IF s < 0 THEN 1 ELSE 0)

NatSub(a, b) == Strip(SubLimbs(a, b, 0))

RECURSIVE NatLess(_, _)
NatLess(a, b) ==
    IF Len(a) # Len(b) THEN Len(a) < Len(b)
    ELSE IF a = << >> THEN FALSE
    ELSE IF a[Len(a)] # b[Len(b)] THEN a[Len(a)] < b[Len(b)]
    ELSE NatLess(SubSeq(a, 1, Len(a) - 1), SubSeq(b, 1, Len(b) - 1))

\* a * k for 0 < k <= LimbBase
RECURSIVE MulLimbs(_, _, _)
MulLimbs(a, k, carry) ==
    IF a = << >> THEN (IF carry = 0 THEN << >> ELSE <<carry>>)
    ELSE LET s == Head(a) * k + carry
         IN  <<s % LimbBase>> \o MulLimbs(Tail(a), k, s \div LimbBase)

\* quotient and remainder of a by n, 0 < n <= LimbBase
RECURSIVE DivRem(_, _)
DivRem(a, n) ==
    IF a = << >> THEN [q |-> << >>, r |-> 0]
    ELSE LET hi == DivRem(Tail(a), n)
             cur == hi.r * LimbBase + Head(a)
         IN  [q |-> <<cur \div n>> \o hi.q, r |-> cur % n]

RECURSIVE BitLen(_)
BitLen(x) == IF x = 0 THEN 0 ELSE 1 + BitLen(x \div 2)

BitLength(a) ==
    IF a = << >> THEN 0 ELSE 15 * (Len(a) - 1) + BitLen(a[Len(a)])

Zeros(j) == [i \in 1..j |-> 0]

\* a * 2^k
ShiftLeft(a, k) ==
    IF a = << >> THEN a
    ELSE Zeros(k \div 15) \o MulLimbs(a, 2^(k % 15), 0)

\* a \div 2^k, and whether a bit was shifted out
ShiftRight(a, k) ==
    LET j == k \div 15
    IN  IF j >= Len(a) THEN [q |-> << >>, sticky |-> a # << >>]
        ELSE LET d == DivRem(SubSeq(a, j + 1, Len(a)), 2^(k % 15))
             IN  [q |-> Strip(d.q),
                  sticky |-> d.r # 0 \/ \E i \in 1..j : a[i] # 0]

ZeroFloat == [m |-> << >>, e |-> 0]

\* the float nearest to M * 2^e, or to a value just above it when sticky;
\* ties go to the even significand
RoundToNearest(M, sticky, e) ==
    IF M = << >> THEN ZeroFloat
    ELSE LET L == BitLength(M)
             s == L - Precision
         IN  IF s <= 0 THEN [m |-> ShiftLeft(M, -s), e |-> e + s]
             ELSE LET g == ShiftRight(M, s - 1)
                      guard == g.q[1] % 2 = 1
                      q == ShiftRight(g.q, 1).q
                      odd == q[1] % 2 = 1
                      r == IF guard /\ (g.sticky \/ sticky \/ odd)
                           THEN NatAdd(q, <<1>>) ELSE q
                  IN  IF BitLength(r) > Precision
                      THEN [m |-> ShiftRight(r, 1).q, e |-> e + s + 1]
                      ELSE [m |-> r, e |-> e + s]

\* x + y of two floats >= 0
FloatAdd(x, y) ==
    IF x.m = << >> THEN y
    ELSE IF y.m = << >> THEN x
    ELSE LET e == IF x.e < y.e THEN x.e ELSE y.e
         IN  RoundToNearest(NatAdd(ShiftLeft(x.m, x.e - e),
                                   ShiftLeft(y.m, y.e - e)), FALSE, e)

\* x / n of a float >= 0 and a count 0 < n <= LimbBase
FloatDiv(x, n) ==
    LET d == DivRem(ShiftLeft(x.m, 30), n)
    IN  RoundToNearest(Strip(d.q), d.r # 0, x.e - 30)

\* res += a[i] for i from the given index on
RECURSIVE SumLoop(_, _, _)
SumLoop(res, a, i) ==
    IF i > Len(a) THEN res ELSE SumLoop(FloatAdd(res, a[i]), a, i + 1)

\* r[j] += a[i + j] for the blocks of eight from index i up to index full
RECURSIVE LaneSum(_, _, _, _)
LaneSum(r, a, i, full) ==
    IF i > full THEN r ELSE LaneSum(FloatAdd(r, a[i]), a, i + 8, full)

\* ((r[0] + r[1]) + (r[2] + r[3])) + ((r[4] + r[5]) + (r[6] + r[7]))
RECURSIVE CombinePairs(_)
CombinePairs(r) ==
    IF Len(r) = 1 THEN r[1]
    ELSE CombinePairs([i \in 1..(Len(r) \div 2) |->
                          FloatAdd(r[2 * i - 1], r[2 * i])])

\* numpy's sum of a contiguous array of up to 128 floats: a plain loop
\* below eight, else eight running sums, combined pairwise, and the rest
pairwise_sum(a) ==
    LET n == Len(a)
    IN  IF n < 8 THEN SumLoop(ZeroFloat, a, 1)
        ELSE LET full == n - (n % 8)
                 r == [j \in 1..8 |-> LaneSum(a[j], a, j + 8, full)]
             IN  SumLoop(CombinePairs(r), a, full + 1)

\* np.mean of a list of floats
np_mean(a) == FloatDiv(pairwise_sum(a), Len(a))

RECURSIVE MinExponent(_)
MinExponent(a) ==
    IF Len(a) = 1 THEN a[1].e
    ELSE LET rest == MinExponent(Tail(a))
         IN  IF Head(a).e < rest THEN Head(a).e ELSE rest

\* a natural below LimbBase^2 as an integer
ToInt(a) ==
    IF a = << >> THEN 0
    ELSE IF Len(a) = 1 THEN a[1]
    ELSE a[1] + LimbBase * a[2]

\* x - y in units of 2^e, for floats that are multiples of 2^e and lie
\* within 2^30 units of each other (the difference is then a float)
Offset(x, y, e) ==
    LET X == ShiftLeft(x.m, x.e - e)
        Y == ShiftLeft(y.m, y.e - e)
    IN  IF NatLess(X, Y) THEN 0 - ToInt(NatSub(Y, X)) ELSE ToInt(NatSub(X, Y))

\* calculate_anomaly_score on floats.  mean_val is rounded as np.mean rounds
\* it; std_val == 0 holds exactly when every earlier value equals mean_val
\* (their differences from it are floats, and the square of a nonzero one
\* does not underflow); the z-score is then taken exactly, as elsewhere, and
\* the score returned as its square.
calculate_anomaly_score_float(values) ==
    IF Len(values) < 3 THEN ZeroScore
    ELSE LET latest_value == values[Len(values)]
             prior == SubSeq(values, 1, Len(values) - 1)
             mean_val == np_mean(prior)
             unit == MinExponent(<<mean_val>> \o values)
             d == [i \in DOMAIN prior |-> Offset(prior[i], mean_val, unit)]
             dl == Offset(latest_value, mean_val, unit)
             ss == SeqSum(Squares(d))               \* m * std_val^2
             m == Len(prior)
         IN  IF ss = 0 THEN ZeroScore
             ELSE IF m * dl * dl >= 16 * ss THEN [num |-> 1, den |-> 1]
             ELSE [num |-> m * dl * dl, den |-> 16 * ss]

\* calculate_trend on floats that lie close together: the values are taken
\* in units of their smallest last place, from the first of them
calculate_trend_float(values, timestamps) ==
    calculate_trend([i \in DOMAIN values |->
                        Offset(values[i], values[1], MinExponent(values))],
                    timestamps)

\* measurements as a sensor reports them (two decimals at most)
Measurements ==
    { [m |-> <<0, 0, 0, 210>>, e |-> -44],   \* 420.0
      [m |-> <<0, 0, 8192, 200>>, e |-> -44],   \* 400.5
      [m |-> <<6554, 13107, 1638, 200>>, e |-> -44],   \* 400.1
      [m |-> <<6554, 13107, 1638, 210>>, e |-> -44],   \* 420.1
      [m |-> <<27525, 28835, 9338, 206>>, e |-> -44],   \* 412.57
      [m |-> <<26214, 19660, 2457, 250>>, e |-> -43],   \* 1000.3
      [m |-> <<7864, 22282, 327, 250>>, e |-> -45],   \* 250.01
      [m |-> <<6554, 13107, 26214, 204>>, e |-> -56] }   \* 0.1

\* a window of n readings of a healthy sensor, all with the same measurement,
\* their timestamps a second apart or all the same
ConstantWindow(n, co2, apart) ==
    [i \in 1..n |-> Reading(co2, 100, -45, IF apart THEN i - 1 ELSE 0)]

InitFloat ==
    \E W \in 3..MaxWindowFloat, co2 \in Measurements, apart \in BOOLEAN :
        /\ window_size = W
        /\ bandwidth_save_target = DefaultTarget
        /\ processing_buffer = ConstantWindow(W, co2, apart)
        /\ stats = [total_readings |-> W, processed_readings |-> 0,
                    anomalies_detected |-> 0, bandwidth_saved_bytes |-> 0,
                    battery_saved_percent |-> [num |-> 0, den |-> 1]]
        /\ db_inserts = << >>
        /\ trace = << >>
        /\ published = << >>
        /\ processed_data = << >>
        /\ alert = << >>
        /\ decision = "none"
        /\ analyzed = 0
        /\ returned = << >>
        /\ last = << >>
        /\ policy = << >>
        /\ propagated = FALSE
        /\ withheld = 0
        /\ report = << >>
        /\ tasks = << >>
        /\ base = << >>

\* the statistics analyze_data_window takes of the measurements of the
\* buffer (lines 214-224), on floats
AnalyzeFloatWindow ==
    /\ analyzed = 0
    /\ LET co2_values == Co2Values(processing_buffer)
           timestamps == Timestamps(processing_buffer)
       IN  processed_data' =
               <<[avg_co2 |-> np_mean(co2_values),
                  co2_trend |-> calculate_trend_float(co2_values, timestamps),
                  anomaly_score |-> calculate_anomaly_score_float(co2_values)]>>
    /\ analyzed' = Len(processing_buffer)
    /\ stats' = [stats EXCEPT !.processed_readings = @ + 1]
    /\ UNCHANGED <<window_size, bandwidth_save_target, processing_buffer,
                   db_inserts, trace, published, alert, decision, returned,
                   last, policy, propagated, withheld, report, tasks, base>>

NextFloat == AnalyzeFloatWindow

SpecFloat == InitFloat /\ [][NextFloat]_vars

----------------------------------------------------------------------------
(* Observations on the last call *)

Entered(tr, method) == \E i \in DOMAIN tr : tr[i] = method

\* every entry of `first` precedes every entry of `second`
Precedes(tr, first, second) ==
    \A i, j \in DOMAIN tr : (tr[i] = first /\ tr[j] = second) => i < j

Publishes(pub, topic) == { i \in DOMAIN pub : pub[i].topic = topic }

SeverityActions ==
    { "trigger_emergency_protocol", "increase_monitoring_frequency",
      "schedule_maintenance_check" }

\* the last `k` entries of s (all of s when it is shorter)
LastK(s, k) == SubSeq(s, IF Len(s) > k THEN Len(s) - k + 1 ELSE 1, Len(s))

WindowEvaluated == analyzed > 0

\* the step is a call of process_sensor_reading (line 171 counts every call)
CallStep == stats'.total_readings # stats.total_readings

----------------------------------------------------------------------------
(* C1 *)

\* C1: whenever detect_anomalies returns an alert in a call, handle_anomaly
\* is entered in that call and an alert publish is issued, whatever the
\* counters and whatever should_transmit_data decides.
C1_AnomalyAlwaysDispatched ==
    alert # << >> =>
        /\ Entered(trace, "handle_anomaly")
        /\ Precedes(trace, "detect_anomalies", "handle_anomaly")
        /\ Publishes(published, "anomaly") # {}

\* an alert was raised and published in a call whose summary the policy withheld
C1_Witness ==
    /\ alert # << >>
    /\ decision = "withhold"
    /\ alert[1].severity = "low"
    /\ Publishes(published, "anomaly") # {}

----------------------------------------------------------------------------
(* C2 *)

\* C2 (as claimed): should_transmit_data is evaluated only for summaries
\* without an anomaly; a summary with a classified anomaly is never run
\* through the policy and never withheld.
C2_PolicyOnlyWithoutAnomaly ==
    alert # << >> =>
        /\ ~Entered(trace, "should_transmit_data")
        /\ decision # "withhold"

----------------------------------------------------------------------------
(* C3 *)

\* C3 (as claimed): analyze_data_window only ever sees a buffer of exactly
\* window_size readings, and the buffer never holds more than window_size.
C3_WindowExactlyFull ==
    /\ WindowEvaluated => analyzed = window_size
    /\ Len(processing_buffer) <= window_size

----------------------------------------------------------------------------
(* C4 *)

\* C4 (as claimed): after every window evaluation, whatever its outcome and
\* whether window_size is odd or even, the buffer is the last
\* window_size \div 2 readings of the buffer that was evaluated.
C4_BufferHalved ==
    [][ (CallStep /\ analyzed' > 0) =>
          processing_buffer' =
              LastK(Append(processing_buffer, last'[1].reading),
                    window_size \div 2) ]_vars

----------------------------------------------------------------------------
(* C5 *)

\* C5 (as claimed): when should_transmit_data returns false, the call adds
\* the positive serialized size of the summary to bandwidth_saved_bytes,
\* publishes no routine summary, truncates the buffer and updates the
\* performance stats.
C5_WithholdCountsBytes ==
    [][ (CallStep /\ decision' = "withhold") =>
          /\ stats'.bandwidth_saved_bytes > stats.bandwidth_saved_bytes
          /\ Publishes(published', "processed") = {}
          /\ Entered(trace', "update_performance_stats")
          /\ Len(processing_buffer') < Len(processing_buffer) + 1 ]_vars

----------------------------------------------------------------------------
(* C6 *)

\* the four rules of the claimed decision order, from the summary's fields
QualityBelow03(pd) == pd.data_quality * 10 < 3 * 10000

TrendSignificant(pd) ==
    /\ pd.co2_trend.sxy # 0
    /\ FracGt(pd.co2_trend.sxy * pd.co2_trend.sxy,
              100 * pd.co2_trend.sxx * pd.co2_trend.sxx,
              pd.co2_trend.sxx * pd.co2_trend.syy,
              pd.co2_trend.sxy * pd.co2_trend.sxy)

SavingsBelowTarget(st, target) ==
    IF st.total_readings = 0 THEN 0 < target.num
    ELSE (st.total_readings - st.processed_readings) * target.den
             < target.num * st.total_readings

ScoreAboveHalf(pd) == 4 * pd.anomaly_score.num > pd.anomaly_score.den

ClaimedDecision(pd, st, target) ==
    IF QualityBelow03(pd) THEN TRUE
    ELSE IF TrendSignificant(pd) THEN TRUE
    ELSE IF SavingsBelowTarget(st, target) THEN FALSE
    ELSE st.processed_readings % 5 = 0

AmendedDecision(pd, st, target) ==
    IF ScoreAboveHalf(pd) THEN TRUE ELSE ClaimedDecision(pd, st, target)

\* C6 (as claimed): the decision is the first matching rule of
\* quality < 0.3 -> transmit; |trend| > 10 -> transmit;
\* savings < target -> withhold; otherwise transmit iff processed % 5 = 0.
C6_DecisionTable ==
    /\ policy # << >> =>
           policy[1].decision =
               ClaimedDecision(policy[1].summary, policy[1].stats,
                               bandwidth_save_target)
    /\ decision # "none" =>
           (decision = "transmit") =
               ClaimedDecision(processed_data[1], stats, bandwidth_save_target)

\* C6 (amended): the decision is the first matching rule of
\* anomaly_score > 0.5 -> transmit; quality < 0.3 -> transmit;
\* |trend| > 10 -> transmit; savings < target -> withhold; otherwise
\* transmit iff processed % 5 = 0.
C6_DecisionTableAmended ==
    /\ policy # << >> =>
           policy[1].decision =
               AmendedDecision(policy[1].summary, policy[1].stats,
                               bandwidth_save_target)
    /\ decision # "none" =>
           (decision = "transmit") =
               AmendedDecision(processed_data[1], stats, bandwidth_save_target)

\* a summary the four claimed rules withhold is transmitted for its score
C6_Witness ==
    /\ policy # << >>
    /\ ScoreAboveHalf(policy[1].summary)
    /\ ~QualityBelow03(policy[1].summary)
    /\ ~TrendSignificant(policy[1].summary)
    /\ SavingsBelowTarget(policy[1].stats, bandwidth_save_target)
    /\ policy[1].stats.processed_readings > 0
    /\ policy[1].decision

----------------------------------------------------------------------------
(* C7 *)

\* C7 (as claimed): in the default configuration, a window that raises no
\* anomaly, has quality >= 0.3 and |trend| <= 10 and is the 5th, 10th, ...
\* processed window is transmitted upstream.
C7_FifthWindowTransmitted ==
    ( /\ window_size = 10
      /\ WindowEvaluated
      /\ alert = << >>
      /\ ~QualityBelow03(processed_data[1])
      /\ ~TrendSignificant(processed_data[1])
      /\ stats.processed_readings % 5 = 0 )
    => Publishes(published, "processed") # {}

----------------------------------------------------------------------------
(* C8 *)

\* C8: every handle_anomaly publishes the alert at QoS 1 (routine summaries
\* go out at QoS 0) before any severity-specific action, and goes on to
\* store the anomaly in the local cache in the same call, also when the
\* publish failed; the row is written whenever the cache accepts writes.
C8_AlertFirstThenPersist ==
    /\ \A i \in Publishes(published, "processed") : published[i].qos = 0
    /\ Entered(trace, "handle_anomaly") =>
        /\ Cardinality(Publishes(published, "anomaly")) = 1
        /\ \A i \in Publishes(published, "anomaly") : published[i].qos = 1
        /\ Precedes(trace, "handle_anomaly", "transmit_anomaly_alert")
        /\ \A a \in SeverityActions : Precedes(trace, "transmit_anomaly_alert", a)
        /\ Entered(trace, "store_anomaly_locally")
        /\ Precedes(trace, "transmit_anomaly_alert", "store_anomaly_locally")
        /\ \A a \in SeverityActions : Precedes(trace, a, "store_anomaly_locally")
        /\ last[1].db_ok =>
               \E i \in DOMAIN db_inserts : db_inserts[i] = "anomalies"

\* the alert publish failed, a severity action ran, and the anomaly was stored
C8_Witness ==
    /\ Entered(trace, "handle_anomaly")
    /\ \E i \in Publishes(published, "anomaly") : ~published[i].ok
    /\ \E a \in SeverityActions : Entered(trace, a)
    /\ \E i \in DOMAIN db_inserts : db_inserts[i] = "anomalies"

----------------------------------------------------------------------------
(* C9 *)

\* C9 (as claimed): a failed anomaly-alert publish is attempted at least
\* once more; a failed routine-summary publish is logged and the call goes on.
C9_AlertPublishRetried ==
    /\ (\E i \in Publishes(published, "anomaly") : ~published[i].ok)
           => Cardinality(Publishes(published, "anomaly")) >= 2
    /\ (\E i \in Publishes(published, "processed") : ~published[i].ok)
           => Entered(trace, "update_performance_stats")

----------------------------------------------------------------------------
(* C10 *)

\* C10: a call whose cache write fails keeps the reading: total_readings
\* grows by one, the reading is appended, and the buffer, the counters, the
\* methods entered, the summary, the alert, the decision, the publishes and
\* the return value are those of the same call with the write succeeding.
C10_CacheFailureKeepsReading ==
    [][ (CallStep /\ ~last'[1].db_ok) =>
          LET good == process_sensor_reading(
                          [buffer |-> processing_buffer, stats |-> stats],
                          window_size, bandwidth_save_target,
                          last'[1].reading, TRUE, last'[1].mqtt_ok)
          IN  /\ stats'.total_readings = stats.total_readings + 1
              /\ analyzed' = 0 =>
                     processing_buffer' =
                         Append(processing_buffer, last'[1].reading)
              /\ (Len(processing_buffer) + 1 >= window_size) = (analyzed' > 0)
              /\ analyzed' > 0 => analyzed' = Len(processing_buffer) + 1
              /\ processing_buffer' = good.buffer
              /\ stats' = good.stats
              /\ trace' = good.trace
              /\ processed_data' = good.processed_data
              /\ alert' = good.alert
              /\ decision' = good.decision
              /\ published' = good.published
              /\ returned' = good.returned ]_vars

\* the cache write failed in a call that evaluated a window, raised an
\* alert and transmitted the summary
C10_Witness ==
    /\ last # << >>
    /\ ~last[1].db_ok
    /\ WindowEvaluated
    /\ alert # << >>
    /\ decision = "transmit"
    /\ returned # << >>

----------------------------------------------------------------------------
(* C11 *)

\* C11 (as claimed): a reading whose co2_ppm is absent is rejected: the call
\* leaves the buffer as it was and no window is evaluated with it.
C11_MissingCo2Rejected ==
    [][ (CallStep /\ last'[1].reading.co2_ppm = << >>) =>
          /\ processing_buffer' = processing_buffer
          /\ ~HasMissingCo2(processing_buffer')
          /\ analyzed' = 0 ]_vars

----------------------------------------------------------------------------
(* C12 *)

\* C12: no exception leaves process_sensor_reading: every call ends by
\* returning the summary it computed or None, a call that reached the except
\* returns None, and the caller goes on to its next call.
C12_NeverPropagates ==
    /\ ~propagated
    /\ returned = << >> \/ returned = processed_data
    /\ Entered(trace, "except") => returned = << >>
    /\ (decision = "transmit" /\ ~Entered(trace, "except")) =>
           returned = processed_data

\* a call in which the cache write failed and the analysis raised ended in
\* the except, after an earlier call had already ended there
C12_Witness ==
    /\ Entered(trace, "except")
    /\ ~last[1].db_ok
    /\ analyzed > window_size
    /\ processed_data = << >>
    /\ returned = << >>

----------------------------------------------------------------------------
(* C14 *)

\* C14: a call that leaves fewer than window_size readings in the buffer
\* returns None, computes no summary, publishes nothing and changes no
\* counter but total_readings; it appends the reading and writes at most
\* the reading's row to the cache.
C14_NoOpBelowWindow ==
    [][ (CallStep /\ Len(processing_buffer) + 1 < window_size) =>
          /\ returned' = << >>
          /\ processed_data' = << >>
          /\ alert' = << >>
          /\ analyzed' = 0
          /\ published' = << >>
          /\ stats' = [stats EXCEPT !.total_readings = @ + 1]
          /\ processing_buffer' = Append(processing_buffer, last'[1].reading)
          /\ \A i \in DOMAIN db_inserts' : db_inserts'[i] = "sensor_readings" ]_vars

\* the second reading of an engine with a window of three, stored in the cache
C14_Witness ==
    /\ window_size = 3
    /\ stats.total_readings = 2
    /\ Len(processing_buffer) = 2
    /\ analyzed = 0
    /\ db_inserts = << "sensor_readings" >>
    /\ returned = << >>

----------------------------------------------------------------------------
(* C15 *)

\* C15 (as claimed): every withheld summary is written to the cache's
\* processed_data table in the call that withheld it.
C15_WithheldCached ==
    decision = "withhold" =>
        \E i \in DOMAIN db_inserts : db_inserts[i] = "processed_data"

----------------------------------------------------------------------------
(* C16 *)

CountersOf(st) ==
    << st.total_readings, st.processed_readings, st.anomalies_detected,
       st.bandwidth_saved_bytes >>

\* C16: the four counters start at 0 and no step lowers one; a call of
\* process_sensor_reading adds exactly 1 to total_readings; a call of
\* get_performance_report returns the counters and changes none.
C16_CountersMonotone ==
    /\ CountersOf(stats) = <<0, 0, 0, 0>>
    /\ [][ /\ \A i \in 1..4 : CountersOf(stats')[i] >= CountersOf(stats)[i]
           /\ report' = << >> => stats'.total_readings = stats.total_readings + 1
           /\ report' # << >> =>
                  /\ stats' = stats
                  /\ report'[1].statistics = stats ]_vars

\* a report taken after windows were evaluated and an anomaly was counted
C16_Witness ==
    /\ report # << >>
    /\ report[1].statistics.total_readings > 2
    /\ report[1].statistics.processed_readings > 1
    /\ report[1].statistics.anomalies_detected > 0
    /\ report[1].statistics = stats

----------------------------------------------------------------------------
(* C17 *)

InUnitInterval(r) == r.den > 0 /\ 0 <= r.num /\ r.num <= r.den

\* C17: calculate_bandwidth_savings lies in [0, 1] in every state, also
\* with total_readings = 0, and so do the bandwidth_saved of every summary
\* and the bandwidth_reduction of every report.
C17_SavingsInUnitInterval ==
    /\ InUnitInterval(calculate_bandwidth_savings(stats))
    /\ processed_data # << >> =>
           InUnitInterval(processed_data[1].bandwidth_saved)
    /\ report # << >> =>
           InUnitInterval(report[1].efficiency_metrics.bandwidth_reduction)

\* a summary whose bandwidth_saved lies strictly between 0 and 1
C17_Witness ==
    /\ processed_data # << >>
    /\ processed_data[1].bandwidth_saved.num > 0
    /\ processed_data[1].bandwidth_saved.num < processed_data[1].bandwidth_saved.den
    /\ stats.processed_readings > 1

----------------------------------------------------------------------------
(* C18 *)

\* C18 (as claimed): the ratio the policy compared with the target in a
\* call is (windows processed and not transmitted) / total_readings, the
\* window being decided counted or not.
C18_SavingsIsWithheldShare ==
    decision # "none" =>
        LET r == calculate_bandwidth_savings(stats)
            before == IF decision = "withhold" THEN withheld - 1 ELSE withheld
        IN  \/ r.num * stats.total_readings = before * r.den
            \/ r.num * stats.total_readings = withheld * r.den

----------------------------------------------------------------------------
(* C19 *)

\* C19 (as claimed): at the total_readings of a call that withholds its
\* window, the savings ratio with that window withheld is not below the
\* ratio without it.
C19_WithholdNeverLowers ==
    [][ (CallStep /\ decision' = "withhold") =>
          ~RatioLt(calculate_bandwidth_savings(stats'),
                   calculate_bandwidth_savings(
                       [stats' EXCEPT !.processed_readings =
                                          stats.processed_readings])) ]_vars

----------------------------------------------------------------------------
(* C20 *)

\* C20: an evaluation of should_transmit_data on its own changes nothing of
\* the engine, and on the summary and stats of the previous evaluation it
\* returns the previous decision.
C20_PolicyIsPure ==
    [][ ~CallStep =>
          /\ UNCHANGED <<window_size, bandwidth_save_target, processing_buffer,
                         stats, db_inserts, trace, published, processed_data,
                         alert, decision, analyzed, returned, last, propagated,
                         withheld, report, tasks, base>>
          /\ policy' # << >>
          /\ policy'[1].stats = stats
          /\ (policy # << >> /\ policy'[1].summary = policy[1].summary
                             /\ policy'[1].stats = policy[1].stats) =>
                 policy'[1].decision = policy[1].decision ]_vars

\* a summary was withheld by an engine that had evaluated windows
C20_Witness ==
    /\ policy # << >>
    /\ ~policy[1].decision
    /\ policy[1].stats = stats
    /\ stats.processed_readings > 1

----------------------------------------------------------------------------
(* C13 *)

\* buffer and counters after the calls for ra and then rb, one after the other
SerialOutcome(b, ra, rb) ==
    LET c1 == process_sensor_reading(b, window_size, bandwidth_save_target,
                                     ra, TRUE, TRUE)
        c2 == process_sensor_reading([buffer |-> c1.buffer, stats |-> c1.stats],
                                     window_size, bandwidth_save_target,
                                     rb, TRUE, TRUE)
    IN  [buffer |-> c2.buffer, stats |-> c2.stats]

\* buffer and counters after the call for ra alone
SingleOutcome(b, ra) ==
    LET c1 == process_sensor_reading(b, window_size, bandwidth_save_target,
                                     ra, TRUE, TRUE)
    IN  [buffer |-> c1.buffer, stats |-> c1.stats]

Engine == [buffer |-> processing_buffer, stats |-> stats]

\* C13: of the calls in flight on one engine none is ever left part-way
\* while another runs, and the buffer and the counters are at every moment
\* those of the finished calls made one after the other in some order.
C13_CallsDoNotInterleave ==
    tasks # << >> =>
        /\ \A i \in DOMAIN tasks : tasks[i].pc \in {"start", "done"}
        /\ AllDone =>
               Engine \in { SerialOutcome(base[1], tasks[1].reading, tasks[2].reading),
                            SerialOutcome(base[1], tasks[2].reading, tasks[1].reading) }
        /\ \A i \in DOMAIN tasks :
               (tasks[i].pc = "done" /\ tasks[3 - i].pc = "start") =>
                   Engine = SingleOutcome(base[1], tasks[i].reading)
        /\ (\A i \in DOMAIN tasks : tasks[i].pc = "start") => Engine = base[1]

\* two calls were in flight whose order matters; both have finished, the
\* second-created one first, and a window was evaluated
C13_Witness ==
    /\ tasks # << >>
    /\ AllDone
    /\ SerialOutcome(base[1], tasks[1].reading, tasks[2].reading)
           # SerialOutcome(base[1], tasks[2].reading, tasks[1].reading)
    /\ Engine = SerialOutcome(base[1], tasks[2].reading, tasks[1].reading)
    /\ stats.processed_readings > 0
    /\ Len(base[1].buffer) > 0

----------------------------------------------------------------------------
(* C21 *)

Rank(severity) ==
    CASE severity = "low" -> 1
      [] severity = "medium" -> 2
      [] severity = "high" -> 3
      [] severity = "critical" -> 4

\* the severities of the rules that fire on a summary
FiredSeverities(pd) ==
    (IF pd.avg_co2.num > 1000 * pd.avg_co2.den THEN {"high"} ELSE {})
    \cup (IF pd.avg_co2.num > 800 * pd.avg_co2.den THEN {"medium"} ELSE {})
    \cup (IF AbsTrendGt(pd.co2_trend, 50) THEN {"medium"} ELSE {})
    \cup (IF pd.data_quality * 10 < 5 * 10000 THEN {"low"} ELSE {})
    \cup (IF ScoreGt(pd.anomaly_score, 4, 5) THEN {"high"} ELSE {})

\* C21 (as claimed): the severity of an alert is at least the severity of
\* every rule that fired on its summary.
C21_SeverityOnlyEscalates ==
    (alert # << >> /\ processed_data # << >>) =>
        \A sev \in FiredSeverities(processed_data[1]) :
            Rank(alert[1].severity) >= Rank(sev)

----------------------------------------------------------------------------
(* C22 *)

\* C22 (as claimed): a summary on which a concentration rule or the
\* rapid-change rule fired keeps that type when its data_quality is below 0.5.
C22_QualityKeepsStrongerType ==
    (alert # << >> /\ processed_data # << >>) =>
        LET pd == processed_data[1]
        IN  (\/ pd.avg_co2.num > 800 * pd.avg_co2.den
             \/ AbsTrendGt(pd.co2_trend, 50)) =>
                alert[1].anomaly_type # "data_quality"

----------------------------------------------------------------------------
(* C23 *)

\* the severity-specific methods entered, with repetitions
SeverityEntries(tr) == { i \in DOMAIN tr : tr[i] \in SeverityActions }

\* C23: a handle_anomaly call enters exactly the severity action of its
\* alert's severity, once: trigger_emergency_protocol for critical,
\* increase_monitoring_frequency for high, schedule_maintenance_check for
\* medium, none for low; type and confidence play no part.
C23_OneActionBySeverity ==
    Entered(trace, "handle_anomaly") =>
        LET sev == alert[1].severity
            expected == IF sev = "critical" THEN {"trigger_emergency_protocol"}
                        ELSE IF sev = "high" THEN {"increase_monitoring_frequency"}
                        ELSE IF sev = "medium" THEN {"schedule_maintenance_check"}
                        ELSE {}
        IN  /\ { trace[i] : i \in SeverityEntries(trace) } = expected
            /\ Cardinality(SeverityEntries(trace)) = Cardinality(expected)

\* a critical alert was handled by the emergency protocol
C23_Witness ==
    /\ Entered(trace, "handle_anomaly")
    /\ alert[1].severity = "critical"
    /\ alert[1].anomaly_type = "data_quality"
    /\ Entered(trace, "trigger_emergency_protocol")
    /\ Entered(trace, "store_anomaly_locally")

----------------------------------------------------------------------------
(* C29 *)

\* C29: every alert detect_anomalies returns has severity low, medium or
\* high, and no call of process_sensor_reading enters
\* trigger_emergency_protocol.
C29_NeverCritical ==
    /\ alert # << >> => alert[1].severity \in {"low", "medium", "high"}
    /\ ~Entered(trace, "trigger_emergency_protocol")

\* every rule fired on a summary given to detect_anomalies by an engine that
\* had processed readings, and the alert is high
C29_Witness ==
    /\ trace = << "detect_anomalies" >>
    /\ alert # << >>
    /\ alert[1].severity = "high"
    /\ FiredSeverities(processed_data[1]) = {"low", "medium", "high"}
    /\ AbsTrendGt(processed_data[1].co2_trend, 50)
    /\ stats.total_readings > 0

----------------------------------------------------------------------------
(* C24 *)

\* C24 (as claimed): in the default configuration 50 steady readings
\* evaluate exactly 5 windows; the 5th is transmitted and the other four
\* are withheld.
C24_FiveWindowsFifthTransmitted ==
    /\ stats.processed_readings <= 5
    /\ stats.total_readings = 50 =>
           (stats.processed_readings = 5 /\ withheld = 4)
    /\ decision # "none" =>
           ((decision = "transmit") <=> (stats.processed_readings = 5))

----------------------------------------------------------------------------
(* C26 *)

\* C26: the summary of every evaluated window has anomaly_score in [0, 1]
\* and data_quality in [0.1, 1].
C26_ScoreAndQualityRanges ==
    processed_data # << >> =>
        /\ InUnitInterval(processed_data[1].anomaly_score)
        /\ processed_data[1].data_quality * 10 >= 1 * 10000
        /\ processed_data[1].data_quality <= 10000

\* a window whose latest value is far off the ones before it: the score is
\* clamped to 1 and the quality is penalized for the spread
C26_Witness ==
    /\ processed_data # << >>
    /\ processed_data[1].anomaly_score.num = processed_data[1].anomaly_score.den
    /\ processed_data[1].data_quality < 10000
    /\ analyzed = 3

----------------------------------------------------------------------------
(* C27 *)

\* a full window of a healthy sensor at a constant measurement whose battery
\* levels fall evenly from 100 to 20
DrainingWindow(buf) ==
    LET n == Len(buf)
        b == Batteries(buf)
    IN  /\ n >= 2
        /\ ~HasMissingCo2(buf)
        /\ b[1] = 100
        /\ b[n] = 20
        /\ \A i \in 1..(n - 1) : (b[i] - b[i + 1]) * (n - 1) = 80
        /\ \A i \in 1..n : buf[i].signal_strength >= -60
        /\ \A i \in 1..n : buf[i].co2_ppm = buf[1].co2_ppm

\* C27 (as claimed): the summary of a window whose battery levels fall
\* evenly from 100 to 20 has data_quality below 0.7.
C27_DrainingBatteryPenalized ==
    [][ ( /\ CallStep
          /\ analyzed' = window_size
          /\ DrainingWindow(Append(processing_buffer, last'[1].reading)) ) =>
            processed_data'[1].data_quality * 10 < 7 * 10000 ]_vars

\* C27 (amended): the summary of a window whose battery levels fall evenly
\* from 100 to 20 has data_quality 1.0: the average level is 60, which is
\* not below 50, so no penalty applies.
C27_DrainingBatteryUnpenalized ==
    [][ ( /\ CallStep
          /\ analyzed' = window_size
          /\ DrainingWindow(Append(processing_buffer, last'[1].reading)) ) =>
            processed_data'[1].data_quality = 10000 ]_vars

\* a window of three readings with battery levels 100, 60, 20 was evaluated
\* (and, withheld, is still the buffer)
C27_Witness ==
    /\ window_size = 3
    /\ analyzed = 3
    /\ Len(processing_buffer) = 3
    /\ DrainingWindow(processing_buffer)
    /\ processed_data # << >>
    /\ processed_data[1].data_quality = 10000

----------------------------------------------------------------------------
(* C30 *)

\* C30: every summary has data_quality >= 0.3 (the lowest is
\* 0.7 x 0.6 x 0.8 = 0.336), so the quality rule of should_transmit_data
\* never fires on a summary of the engine.
C30_QualityRuleNeverFires ==
    processed_data # << >> =>
        /\ processed_data[1].data_quality * 1000 >= 336 * 10000
        /\ ~QualityBelow03(processed_data[1])
        /\ analyzed >= window_size

\* the lowest score: battery below 20, signal below -80, spread above 100
C30_Witness ==
    /\ processed_data # << >>
    /\ processed_data[1].data_quality = 3360
    /\ decision # "none"

----------------------------------------------------------------------------
(* C28 *)

\* C28: processed_readings <= total_readings and anomalies_detected <=
\* processed_readings in every state, a call raises processed_readings by at
\* most 1 and anomalies_detected by at most 1, and the unclamped savings
\* 1 - processed/total is never negative.
C28_CountersOrdered ==
    /\ [](/\ stats.processed_readings <= stats.total_readings
          /\ stats.anomalies_detected <= stats.processed_readings
          /\ calculate_bandwidth_savings_unclamped(stats).num >= 0
          /\ calculate_bandwidth_savings_unclamped(stats).den >= 0)
    /\ [][ /\ stats'.processed_readings - stats.processed_readings \in {0, 1}
           /\ stats'.anomalies_detected - stats.anomalies_detected \in {0, 1}
           /\ stats'.total_readings - stats.total_readings \in {0, 1} ]_vars

\* every window evaluated so far was anomalous, and there were several
C28_Witness ==
    /\ stats.processed_readings >= 2
    /\ stats.anomalies_detected = stats.processed_readings
    /\ stats.total_readings > stats.processed_readings
    /\ alert # << >>

----------------------------------------------------------------------------
(* C25 *)

\* C25: the summary of a window whose readings all have the same
\* measurement has co2_trend = 0, anomaly_score = 0 and avg_co2 equal to
\* that measurement, whatever the timestamps.
C25_ConstantWindowNeutral ==
    processed_data # << >> =>
        /\ processed_data[1].co2_trend = ZeroTrend
        /\ processed_data[1].anomaly_score.num = 0
        /\ processed_data[1].avg_co2 = processing_buffer[1].co2_ppm[1]

====
